---- MODULE Spec2Model ----
(***************************************************************************)
(* Query Runner (src/query_runner.py): a script of SQL statements is run   *)
(* against a database connection; a script carrying both date markers is   *)
(* run day by day and its rows are combined into one CSV file; every run   *)
(* that gets to its end appends a record to the run log.                   *)
(*                                                                         *)
(* Text is modelled as a sequence of tokens (records [k, f, q, ymd]); the  *)
(* regular expressions of the source are matched over token sequences.     *)
(* A datetime is its proleptic Gregorian ordinal, as in Python's datetime; *)
(* strptime and strftime convert between ordinals and year-month-day text. *)
(***************************************************************************)
EXTENDS Integers, Sequences, FiniteSets, TLC

\* ---------------------------------------------------------------- bounds
\* The longest date range of a generated script is MaxSpan days after its start.
MaxSpan == 2
\* Number of invocations of the program in one behaviour.
MaxRuns == 2
\* Number of consecutive calendar days the inputs of RangeSpec are drawn from.
WindowLen == 9

\* ------------------------------------------------------- datetime library
IsLeap(y) == (y % 4 = 0) /\ ((y % 100 # 0) \/ (y % 400 = 0))

DaysInMonth(y, m) ==
    CASE m \in {4, 6, 9, 11} -> 30
      [] m = 2 -> IF IsLeap(y) THEN 29 ELSE 28
      [] OTHER -> 31

DaysBeforeYear(y) ==
    LET p == y - 1 IN p * 365 + (p \div 4) - (p \div 100) + (p \div 400)

RECURSIVE DaysBeforeMonth(_, _)
DaysBeforeMonth(y, m) ==
    IF m <= 1 THEN 0 ELSE DaysBeforeMonth(y, m - 1) + DaysInMonth(y, m - 1)

\* date.toordinal()
ymd2ord(ymd) == DaysBeforeYear(ymd[1]) + DaysBeforeMonth(ymd[1], ymd[2]) + ymd[3]

\* date.fromordinal(), by the library's 400/100/4/1-year cycle arithmetic
ord2ymd(ord) ==
    LET n0   == ord - 1
        n400 == n0 \div 146097
        r400 == n0 % 146097
        n100 == r400 \div 36524
        r100 == r400 % 36524
        n4   == r100 \div 1461
        r4   == r100 % 1461
        n1   == r4 \div 365
        n    == r4 % 365
        year == n400 * 400 + 1 + n100 * 100 + n4 * 4 + n1
    IN  IF n1 = 4 \/ n100 = 4
        THEN <<year - 1, 12, 31>>
        ELSE LET guess == (n + 50) \div 32
                 prec  == DaysBeforeMonth(year, guess)
                 month == IF prec > n THEN guess - 1 ELSE guess
                 before == DaysBeforeMonth(year, month)
             IN  <<year, month, n - before + 1>>

\* datetime.strptime(text, '%Y-%m-%d') accepts the text iff it names a real day
strptime_ok(ymd) ==
    /\ ymd[1] >= 1
    /\ ymd[2] \in 1..12
    /\ ymd[3] >= 1
    /\ ymd[3] <= DaysInMonth(ymd[1], ymd[2])

\* Optional datetime: None or a date (its ordinal)
None == [none |-> TRUE, ord |-> 0]
Some(n) == [none |-> FALSE, ord |-> n]

\* ------------------------------------------------------------------ text
Tok(k) == [k |-> k, f |-> "", q |-> "", ymd |-> <<0, 0, 0>>]

\* A quoted literal. f is the shape of the quoted text: "iso" is
\* \d{4}-\d{2}-\d{2}; "short" is digits and dashes of another shape (2024-3-1);
\* "slash" holds other characters (2024/03/01).  q is the quote character.
Lit(f, q, ymd) == [k |-> "LIT", f |-> f, q |-> q, ymd |-> ymd]

IsSetKw(t) == t.k \in {"SET", "set"}

\* Positions where  SET\s+<marker>\s*=\s*["']<text>["']  matches with the
\* quoted text of one of the shapes in `shapes` (re.IGNORECASE)
AssignMatches(query, marker, shapes) ==
    {i \in 1..(Len(query) - 3) :
        /\ IsSetKw(query[i])
        /\ query[i + 1].k = marker
        /\ query[i + 2].k = "="
        /\ query[i + 3].k = "LIT"
        /\ query[i + 3].f \in shapes}

Min(S) == CHOOSE x \in S : \A y \in S : x <= y

\* re.search(r'SET\s+@m\s*=\s*["\'](\d{4}-\d{2}-\d{2})["\']', query): group(1)
\* of the leftmost match, or <<>> when there is none
search_date(query, marker) ==
    LET ms == AssignMatches(query, marker, {"iso"})
    IN  IF ms = {} THEN <<>> ELSE query[Min(ms) + 3].ymd

\* re.sub(r'(SET\s+@m\s*=\s*)["\'][\d-]+["\']', '\1"<day>"', query):
\* every match has its quoted text replaced by the day, in double quotes
sub_date(query, marker, day) ==
    LET ms == AssignMatches(query, marker, {"iso", "short"})
    IN  [i \in 1..Len(query) |->
            IF (i - 3) \in ms THEN Lit("iso", "dq", ord2ymd(day)) ELSE query[i]]

\* query.strip().upper().startswith('SET')
startswith_SET(query) == Len(query) >= 1 /\ IsSetKw(query[1])

\* '@m' in query.lower(): the data statement SELECT_RANGE names both markers
mentions(query, marker) ==
    \E i \in 1..Len(query) : query[i].k \in {marker, "SELECT_RANGE"}

\* --------------------------------------------------------- pure functions
RECURSIVE drop_empty(_)
drop_empty(frags) ==
    IF frags = <<>> THEN <<>>
    ELSE IF Head(frags) = <<>> THEN drop_empty(Tail(frags))
    ELSE <<Head(frags)>> \o drop_empty(Tail(frags))

RECURSIVE split_semi(_, _)
split_semi(content, cur) ==
    IF content = <<>> THEN <<cur>>
    ELSE IF Head(content).k = ";" THEN <<cur>> \o split_semi(Tail(content), <<>>)
    ELSE split_semi(Tail(content), Append(cur, Head(content)))

\* [q.strip() for q in content.split(';') if q.strip()]
parse_sql_file(content) == drop_empty(split_semi(content, <<>>))

\* One pass of the loop body of extract_date_range over `query`
extract_step(acc, query) ==
    LET sm == search_date(query, "@start_date")
        em == search_date(query, "@end_date")
    IN  IF sm # <<>> /\ ~strptime_ok(sm) THEN [acc EXCEPT !.raised = TRUE]
        ELSE LET a1 == IF sm # <<>> THEN [acc EXCEPT !.start = Some(ymd2ord(sm))] ELSE acc
             IN  IF em # <<>> /\ ~strptime_ok(em) THEN [a1 EXCEPT !.raised = TRUE]
                 ELSE IF em # <<>> THEN [a1 EXCEPT !.end = Some(ymd2ord(em))] ELSE a1

RECURSIVE extract_loop(_, _)
extract_loop(acc, queries) ==
    IF queries = <<>> \/ acc.raised THEN acc
    ELSE extract_loop(extract_step(acc, Head(queries)), Tail(queries))

\* (start_date, end_date), or raised = TRUE when strptime raises ValueError
extract_date_range(queries) ==
    extract_loop([start |-> None, end |-> None, raised |-> FALSE], queries)

\* Faulty variant: the loop stops before the end date (while current_date < end_date)
RECURSIVE generate_daily_ranges_exclusive(_, _)
generate_daily_ranges_exclusive(start_date, end_date) ==
    IF start_date < end_date
    THEN <<<<start_date, start_date>>>>
         \o generate_daily_ranges_exclusive(start_date + 1, end_date)
    ELSE <<>>

RECURSIVE generate_daily_ranges(_, _)
generate_daily_ranges(start_date, end_date) ==
    IF start_date <= end_date
    THEN <<<<start_date, start_date>>>> \o generate_daily_ranges(start_date + 1, end_date)
    ELSE <<>>

\* The statement the chunked executor sends for `query` on `day`
daily_statement(query, day_start, day_end) ==
    IF startswith_SET(query)
    THEN LET m1 == IF mentions(query, "@start_date")
                   THEN sub_date(query, "@start_date", day_start) ELSE query
         IN  IF mentions(query, "@end_date")
             THEN sub_date(m1, "@end_date", day_end) ELSE m1
    ELSE query

\* ------------------------------------------------------------ the database
\* A table row is [id, d]: d is the ordinal of the row's date column.
Max(S) == CHOOSE x \in S : \A y \in S : x >= y

\* SELECT ... WHERE d BETWEEN lo AND hi, in table order
rows_between(rows, lo, hi) == SelectSeq(rows, LAMBDA r : lo <= r.d /\ r.d <= hi)

\* The server ignores a leading comment
db_body(stmt) == IF stmt # <<>> /\ Head(stmt).k = "COMMENT" THEN Tail(stmt) ELSE stmt

\* The value a session variable gets from the last assignment to it in `body`
db_assigned(body, marker, old) ==
    LET ms == AssignMatches(body, marker, {"iso", "short", "slash"})
    IN  IF ms = {} THEN old
        ELSE LET lit == body[Max(ms) + 3]
             IN  IF lit.f # "slash" /\ strptime_ok(lit.ymd)
                 THEN Some(ymd2ord(lit.ymd)) ELSE None

\* cursor.execute(stmt) that does not fail: the session after it, the
\* cursor's description (<<>> is None) and the rows fetchall() returns
db_execute(stmt, sess, table) ==
    LET body == db_body(stmt)
        kw   == IF body = <<>> THEN "" ELSE Head(body).k
    IN  CASE kw \in {"SET", "set"} ->
               [sess |-> [start |-> db_assigned(body, "@start_date", sess.start),
                          end   |-> db_assigned(body, "@end_date", sess.end)],
                cols |-> <<>>, rows |-> <<>>]
          [] kw = "SELECT_RANGE" ->
               [sess |-> sess, cols |-> <<"id", "d">>,
                rows |-> IF sess.start.none \/ sess.end.none THEN <<>>
                         ELSE rows_between(table, sess.start.ord, sess.end.ord)]
          [] kw = "SELECT_ALL" ->
               [sess |-> sess, cols |-> <<"id", "d">>, rows |-> table]
          [] OTHER ->
               [sess |-> sess, cols |-> <<>>, rows |-> <<>>]

\* ------------------------------------------------------------------ inputs
BaseDay == <<2024, 2, 28>>
DayText(k) == ord2ymd(ymd2ord(BaseDay) + k)

SetStart(kw, lit) == <<Tok(kw), Tok("@start_date"), Tok("="), lit>>
SetEnd(kw, lit) == <<Tok(kw), Tok("@end_date"), Tok("="), lit>>

RECURSIVE Script(_)
Script(stmts) ==
    IF stmts = <<>> THEN <<>>
    ELSE Head(stmts) \o <<Tok(";")>> \o Script(Tail(stmts))

\* Scripts whose end marker lies k days after the start marker
RangedScripts(k) ==
    LET S == Lit("iso", "sq", DayText(0))
        E == Lit("iso", "sq", DayText(k))
    IN  { Script(<<SetStart("SET", S), SetEnd("SET", E), <<Tok("SELECT_RANGE")>>>>),
          Script(<<<<Tok("COMMENT")>> \o SetStart("SET", S), SetEnd("SET", E),
                   <<Tok("SELECT_RANGE")>>>>),
          Script(<<SetStart("set", [S EXCEPT !.q = "dq"]), SetEnd("set", E),
                   <<Tok("SELECT_RANGE")>>>>),
          Script(<<SetStart("SET", S), SetEnd("SET", E), <<Tok("UPDATE")>>>>) }

OtherScripts ==
    LET S == Lit("iso", "sq", DayText(0))
        E == Lit("iso", "sq", DayText(1))
    IN  { \* only one marker
          Script(<<SetStart("SET", S), <<Tok("SELECT_RANGE")>>>>),
          \* no marker
          Script(<<<<Tok("SELECT_ALL")>>, <<Tok("UPDATE")>>, <<Tok("SELECT_RANGE")>>>>),
          \* a start marker that is no calendar day: 2024-02-30
          Script(<<SetStart("SET", Lit("iso", "sq", <<2024, 2, 30>>)), SetEnd("SET", E),
                   <<Tok("SELECT_RANGE")>>>>),
          \* a start marker written 2024/02/28
          Script(<<SetStart("SET", Lit("slash", "sq", DayText(0))), SetEnd("SET", E),
                   <<Tok("SELECT_RANGE")>>>>),
          \* a start marker written 2024-2-28 after an ISO one
          Script(<<SetStart("SET", Lit("iso", "sq", DayText(-1))),
                   SetStart("SET", Lit("short", "sq", DayText(0))), SetEnd("SET", E),
                   <<Tok("SELECT_RANGE")>>>>),
          \* nothing but separators
          <<Tok(";"), Tok(";")>> }

Scripts == OtherScripts \cup UNION {RangedScripts(k) : k \in (-1)..MaxSpan}

Row(id, k) == [id |-> id, d |-> ymd2ord(BaseDay) + k]

Tables == { <<>>,
            <<Row(1, 0), Row(2, 1), Row(3, 1), Row(4, 2), Row(5, 4)>> }

Required == {"DB_USER", "DB_PASSWORD", "DB_NAME"}
EnvCases == {Required} \cup {Required \ {v} : v \in Required}
FileCases == {"arg", "auto", "auto_none", "arg_missing"}

\* ------------------------------------------------------------------- state
VARIABLES
    run,            \* number of the invocation
    pc,             \* position of the invocation in main()
    exitCode,       \* exit status of the process, -1 while it runs
    creds,          \* the credentials set in the environment
    fileCase,       \* how the script file is named and whether it exists
    content,        \* the text of the script file
    table,          \* the rows of the queried table
    scriptRead,     \* the script file was opened
    outDir,         \* the output directory was created
    files,          \* the CSV files written by this invocation
    logExists,      \* the run log file exists
    logRows,        \* the rows of the run log file
    conn,           \* "none", "failed" (connect raised), "open" or "closed"
    connects,       \* connections acquired by this invocation
    closes,         \* connections released by this invocation
    sess,           \* the session variables @start_date and @end_date
    sent,           \* the execute() calls of this invocation
    queries, start_date, end_date, status, success_count, idx,
    date_ranges, day, all_results, column_names,
    reached,        \* this invocation reached query execution
    ended           \* the invocations that reached query execution and ended

inputs == <<creds, fileCase, content, table>>
disk   == <<scriptRead, outDir, files>>
log    == <<logExists, logRows>>
dbv    == <<conn, connects, closes, sess, sent>>
locals == <<queries, start_date, end_date, status, success_count, idx>>
chunk  == <<date_ranges, day, all_results, column_names>>
hist   == <<reached, ended>>
vars   == <<run, pc, exitCode, inputs, disk, log, dbv, locals, chunk, hist>>

NoSess == [start |-> None, end |-> None]

\* What every behaviour starts from, but for pc, the table and the dates
Fresh ==
    /\ run = 1
    /\ exitCode = -1
    /\ creds = Required
    /\ fileCase = "arg"
    /\ content = <<>>
    /\ scriptRead = FALSE
    /\ outDir = FALSE
    /\ files = {}
    /\ logExists = FALSE
    /\ logRows = <<>>
    /\ conn = "none"
    /\ connects = 0
    /\ closes = 0
    /\ sess = NoSess
    /\ sent = <<>>
    /\ queries = <<>>
    /\ status = "success"
    /\ success_count = 0
    /\ idx = 1
    /\ date_ranges = <<>>
    /\ day = 1
    /\ all_results = <<>>
    /\ column_names = <<>>
    /\ reached = FALSE
    /\ ended = <<>>

Init ==
    /\ Fresh
    /\ pc = "idle"
    /\ table \in Tables
    /\ start_date = None
    /\ end_date = None

\* ----------------------------------------------------------------- helpers
\* sys.exit(1)
Exit1 == pc' = "exited" /\ exitCode' = 1

\* an exception no handler catches ends the process with a traceback
Crash == pc' = "crashed" /\ exitCode' = 1

\* csv.writer writes each value by its string representation
csv_row(r) == <<ToString(r.id), ToString(r.d)>>
csv_rows(rows) == [i \in 1..Len(rows) |-> csv_row(rows[i])]

\* writerow(column_names); writerows(results)
csv_lines(cols, results) == <<cols>> \o csv_rows(results)

\* Faulty variant: a result set without rows is taken for no result set (if results:)
has_description_rows(r) == r.rows # <<>>

\* cursor.description is not None
has_description(r) == r.cols # <<>>

\* Faulty variant: the password is not checked
credentials_ok_no_password(env) ==
    /\ "DB_USER" \in env
    /\ "DB_NAME" \in env

\* all three of DB_USER, DB_PASSWORD and DB_NAME are set
credentials_ok(env) ==
    /\ "DB_USER" \in env
    /\ "DB_PASSWORD" \in env
    /\ "DB_NAME" \in env

\* Faulty variant: the error ends the loops only, and what was fetched is written
chunk_error_target_write == "chunk_write"

\* where the chunked executor goes when execute() raises: out of both loops,
\* to the handler that returns False
chunk_error_target == "close"

\* Faulty variant: the run fails only when no statement succeeded
plain_status_none(count, n) == IF count = 0 THEN "failure" ELSE "success"

\* overall status of a non-chunked run
plain_status(count, n) == IF count < n THEN "failure" ELSE "success"

Call(d, i, text, ok, r) ==
    [day |-> d, idx |-> i, text |-> text, ok |-> ok, cols |-> r.cols, rows |-> r.rows]

NoResult == [cols |-> <<>>, rows |-> <<>>]

\* ----------------------------------------------------------------- actions
\* The process is started: the environment, the arguments and the script
Invoke ==
    /\ pc = "idle"
    /\ creds' \in EnvCases
    /\ fileCase' \in FileCases
    /\ content' \in Scripts
    /\ pc' = "resolve"
    /\ UNCHANGED <<run, exitCode, table, disk, log, dbv, locals, chunk, hist>>

\* main: the script is the -f argument or the first *.sql file found
ResolveSqlFile ==
    /\ pc = "resolve"
    /\ IF fileCase = "auto_none" THEN Exit1 ELSE pc' = "creds" /\ UNCHANGED exitCode
    /\ UNCHANGED <<run, inputs, disk, log, dbv, locals, chunk, hist>>

\* main: the required environment variables
CheckCredentials ==
    /\ pc = "creds"
    /\ IF credentials_ok(creds) THEN pc' = "isfile" /\ UNCHANGED exitCode ELSE Exit1
    /\ UNCHANGED <<run, inputs, disk, log, dbv, locals, chunk, hist>>

\* main: os.path.isfile(sql_file)
ValidateSqlFile ==
    /\ pc = "isfile"
    /\ IF fileCase = "arg_missing" THEN Exit1 ELSE pc' = "mkdir" /\ UNCHANGED exitCode
    /\ UNCHANGED <<run, inputs, disk, log, dbv, locals, chunk, hist>>

\* main: output_dir.mkdir(parents=True, exist_ok=True)
MakeOutputDir ==
    /\ pc = "mkdir"
    /\ outDir' = TRUE
    /\ pc' = "parse"
    /\ UNCHANGED <<run, exitCode, inputs, scriptRead, files, log, dbv, locals, chunk, hist>>

\* main: queries = parse_sql_file(sql_file)
ParseSqlFile ==
    /\ pc = "parse"
    /\ scriptRead' = TRUE
    /\ queries' = parse_sql_file(content)
    /\ pc' = "connect"
    /\ UNCHANGED <<run, exitCode, inputs, outDir, files, log, dbv, chunk, hist,
                   start_date, end_date, status, success_count, idx>>

\* connect_to_database: the connection, or sys.exit(1) on mysql.connector.Error
Connect ==
    /\ pc = "connect"
    /\ \E ok \in BOOLEAN :
        IF ok
        THEN /\ conn' = "open"
             /\ connects' = connects + 1
             /\ sess' = NoSess
             /\ pc' = "detect"
             /\ UNCHANGED exitCode
        ELSE /\ Exit1
             /\ conn' = "failed"
             /\ UNCHANGED <<connects, sess>>
    /\ UNCHANGED <<run, inputs, disk, log, closes, sent, locals, chunk, hist>>

\* main: the script is read again, extract_date_range(queries) decides the mode
DetectDateRange ==
    /\ pc = "detect"
    /\ LET r == extract_date_range(queries)
       IN  IF r.raised
           THEN /\ Crash
                /\ UNCHANGED <<start_date, end_date, reached>>
           ELSE /\ start_date' = r.start
                /\ end_date' = r.end
                /\ reached' = TRUE
                /\ pc' = IF ~r.start.none /\ ~r.end.none THEN "chunk_begin" ELSE "plain_exec"
                /\ UNCHANGED exitCode
    /\ success_count' = 0
    /\ status' = "success"
    /\ idx' = 1
    /\ UNCHANGED <<run, inputs, disk, log, dbv, queries, chunk, ended>>

\* execute_query_daily_to_csv, up to the loop over the days
ChunkedBegin ==
    /\ pc = "chunk_begin"
    /\ LET r == extract_date_range(queries)
       IN  IF r.raised \/ r.start.none \/ r.end.none
           THEN /\ status' = "failure"
                /\ pc' = "close"
                /\ UNCHANGED date_ranges
           ELSE /\ date_ranges' = generate_daily_ranges(r.start.ord, r.end.ord)
                /\ pc' = IF date_ranges' = <<>> THEN "chunk_write" ELSE "chunk_exec"
                /\ UNCHANGED status
    /\ day' = 1
    /\ idx' = 1
    /\ all_results' = <<>>
    /\ column_names' = <<>>
    /\ UNCHANGED <<run, exitCode, inputs, disk, log, dbv, hist,
                   queries, start_date, end_date, success_count>>

\* execute_query_daily_to_csv: one statement of one day
ChunkedExec ==
    /\ pc = "chunk_exec"
    /\ LET query == queries[idx]
           text  == daily_statement(query, date_ranges[day][1], date_ranges[day][2])
       IN  \E ok \in BOOLEAN :
            IF ~ok
            THEN \* execute() raises mysql.connector.Error: return False
                 /\ sent' = Append(sent, Call(day, idx, text, FALSE, NoResult))
                 /\ status' = IF chunk_error_target = "close" THEN "failure" ELSE status
                 /\ pc' = chunk_error_target
                 /\ UNCHANGED <<sess, idx, day, all_results, column_names>>
            ELSE LET r == db_execute(text, sess, table)
                     fetched == ~startswith_SET(query) /\ has_description(r)
                 IN  /\ sess' = r.sess
                     /\ sent' = Append(sent, Call(day, idx, text, TRUE, r))
                     /\ column_names' = IF fetched /\ column_names = <<>>
                                        THEN r.cols ELSE column_names
                     /\ all_results' = IF fetched THEN all_results \o r.rows
                                       ELSE all_results
                     /\ IF idx < Len(queries)
                        THEN idx' = idx + 1 /\ UNCHANGED <<day, pc>>
                        ELSE IF day < Len(date_ranges)
                        THEN idx' = 1 /\ day' = day + 1 /\ UNCHANGED pc
                        ELSE pc' = "chunk_write" /\ UNCHANGED <<idx, day>>
                     /\ UNCHANGED status
    /\ UNCHANGED <<run, exitCode, inputs, disk, log, conn, connects, closes, hist,
                   queries, start_date, end_date, success_count, date_ranges>>

\* execute_query_daily_to_csv after the loop, and main's count of its result
ChunkedWrite ==
    /\ pc = "chunk_write"
    /\ \E io_ok \in BOOLEAN :
        IF column_names # <<>> /\ ~io_ok
        THEN \* open() or a write raises OSError: except Exception, return False
             /\ status' = "failure"
             /\ UNCHANGED <<files, success_count>>
        ELSE /\ files' = IF column_names # <<>>
                         THEN files \cup {[name |-> "combined", idx |-> 0,
                                           lines |-> csv_lines(column_names, all_results)]}
                         ELSE files
             /\ success_count' = success_count + 1
             /\ UNCHANGED status
    /\ pc' = "close"
    /\ UNCHANGED <<run, exitCode, inputs, scriptRead, outDir, log, dbv, chunk, hist,
                   queries, start_date, end_date, idx>>

\* main's loop over the statements: execute_query_to_csv on statement idx
PlainExec ==
    /\ pc = "plain_exec"
    /\ idx <= Len(queries)
    /\ LET query == queries[idx]
       IN  \E outcome \in {"ok", "db_error", "io_error"} :
            LET r == db_execute(query, sess, table)
            IN  CASE outcome = "db_error" ->
                       \* mysql.connector.Error: return False
                       /\ sent' = Append(sent, Call(0, idx, query, FALSE, NoResult))
                       /\ idx' = idx + 1
                       /\ UNCHANGED <<sess, files, success_count, pc, exitCode, ended>>
                  [] outcome = "ok" ->
                       /\ sess' = r.sess
                       /\ sent' = Append(sent, Call(0, idx, query, TRUE, r))
                       /\ files' = IF has_description(r)
                                   THEN files \cup {[name |-> "query", idx |-> idx,
                                                     lines |-> csv_lines(r.cols, r.rows)]}
                                   ELSE files
                       /\ success_count' = success_count + 1
                       /\ idx' = idx + 1
                       /\ UNCHANGED <<pc, exitCode, ended>>
                  [] outcome = "io_error" ->
                       \* open() or a write raises OSError, which nothing catches
                       /\ has_description(r)
                       /\ sess' = r.sess
                       /\ sent' = Append(sent, Call(0, idx, query, TRUE, r))
                       /\ Crash
                       /\ ended' = Append(ended, run)
                       /\ UNCHANGED <<files, success_count, idx>>
    /\ UNCHANGED <<run, inputs, scriptRead, outDir, log, conn, connects, closes, chunk,
                   reached, queries, start_date, end_date, status>>

\* main after the loop: the overall status
PlainEnd ==
    /\ pc = "plain_exec"
    /\ idx > Len(queries)
    /\ status' = plain_status(success_count, Len(queries))
    /\ pc' = "close"
    /\ UNCHANGED <<run, exitCode, inputs, disk, log, dbv, chunk, hist,
                   queries, start_date, end_date, success_count, idx>>

\* main: connection.close()
CloseConnection ==
    /\ pc = "close"
    /\ conn' = "closed"
    /\ closes' = closes + 1
    /\ pc' = "log"
    /\ UNCHANGED <<run, exitCode, inputs, disk, log, connects, sess, sent, locals,
                   chunk, hist>>

\* A row of the run log: the header, or a record with its timestamps (here the
\* number of the invocation that wrote it) and its status
LogHeader == [kind |-> "header", run |-> 0, status |-> ""]

\* append_run_log(log_file, ..., status, sql_content), then the summary
AppendRunLog ==
    /\ pc = "log"
    /\ \E io_ok \in BOOLEAN :
        IF io_ok
        THEN /\ logRows' = (IF logExists THEN logRows ELSE Append(logRows, LogHeader))
                           \o <<[kind |-> "record", run |-> run, status |-> status]>>
             /\ logExists' = TRUE
             /\ pc' = "done"
             /\ exitCode' = 0
        ELSE \* mkdir, open() or a write raises OSError, which nothing catches
             /\ Crash
             /\ UNCHANGED log
    /\ ended' = Append(ended, run)
    /\ UNCHANGED <<run, inputs, disk, dbv, locals, chunk, reached>>

Ended == pc \in {"done", "exited", "crashed"}

\* The process has ended; the program is started again
NextInvocation ==
    /\ Ended
    /\ run < MaxRuns
    /\ run' = run + 1
    /\ pc' = "idle"
    /\ exitCode' = -1
    /\ creds' = Required
    /\ fileCase' = "arg"
    /\ content' = <<>>
    /\ scriptRead' = FALSE
    /\ outDir' = FALSE
    /\ conn' = "none"
    /\ connects' = 0
    /\ closes' = 0
    /\ sess' = NoSess
    /\ sent' = <<>>
    /\ queries' = <<>>
    /\ start_date' = None
    /\ end_date' = None
    /\ status' = "success"
    /\ success_count' = 0
    /\ idx' = 1
    /\ date_ranges' = <<>>
    /\ day' = 1
    /\ all_results' = <<>>
    /\ column_names' = <<>>
    /\ reached' = FALSE
    /\ files' = {}
    /\ UNCHANGED <<table, log, ended>>

Next ==
    \/ Invoke
    \/ ResolveSqlFile
    \/ CheckCredentials
    \/ ValidateSqlFile
    \/ MakeOutputDir
    \/ ParseSqlFile
    \/ Connect
    \/ DetectDateRange
    \/ ChunkedBegin
    \/ ChunkedExec
    \/ ChunkedWrite
    \/ PlainExec
    \/ PlainEnd
    \/ CloseConnection
    \/ AppendRunLog
    \/ NextInvocation

Spec == Init /\ [][Next]_vars

\* ------------------------------------------- generate_daily_ranges alone
Window == {ymd2ord(BaseDay) - 3 + i : i \in 0..(WindowLen - 1)}

RangeInit ==
    /\ Fresh
    /\ pc = "range_call"
    /\ table = <<>>
    /\ start_date \in {Some(d) : d \in Window}
    /\ end_date \in {Some(d) : d \in Window}

GenerateRanges ==
    /\ pc = "range_call"
    /\ date_ranges' = generate_daily_ranges(start_date.ord, end_date.ord)
    /\ pc' = "range_done"
    /\ UNCHANGED <<run, exitCode, inputs, disk, log, dbv, locals, hist,
                   day, all_results, column_names>>

RangeNext == GenerateRanges

RangeSpec == RangeInit /\ [][RangeNext]_vars

\* ------------------------------------------------------------- properties
Chunked == reached /\ ~start_date.none /\ ~end_date.none
Plain   == reached /\ (start_date.none \/ end_date.none)

SomeFailed == \E i \in 1..Len(sent) : ~sent[i].ok
LogOfRun == {i \in 1..Len(logRows) : logRows[i].kind = "record" /\ logRows[i].run = run}
LoopOver == pc \in {"close", "log", "done"} \/ (pc = "crashed" /\ closes = 1)

RECURSIVE RowsOf(_)
RowsOf(calls) ==
    IF calls = <<>> THEN <<>> ELSE Head(calls).rows \o RowsOf(Tail(calls))

Strs(rows) == [i \in 1..Len(rows) |-> <<ToString(rows[i].id), ToString(rows[i].d)>>]

\* The day after a calendar day, by the calendar's rules
NextDay(ymd) ==
    IF ymd[3] < DaysInMonth(ymd[1], ymd[2]) THEN <<ymd[1], ymd[2], ymd[3] + 1>>
    ELSE IF ymd[2] < 12 THEN <<ymd[1], ymd[2] + 1, 1>>
    ELSE <<ymd[1] + 1, 1, 1>>

\* C3: in chunked mode a failing statement is the last one executed (nothing
\* runs after it, it is not tried again), no CSV file is written, the status
\* is "failure", and the run's log record carries that status.
C3_ChunkedFailureAborts ==
    (Chunked /\ SomeFailed) =>
        /\ \A i \in 1..Len(sent) : sent[i].ok <=> i < Len(sent)
        /\ files = {}
        /\ status = "failure"
        /\ pc \in {"close", "log", "done", "crashed"}
        /\ \A i \in LogOfRun : logRows[i].status = "failure"
        /\ pc = "done" => Cardinality(LogOfRun) = 1

\* A run whose second day fails at the data statement, after rows were fetched
C3_Witness ==
    /\ Chunked /\ SomeFailed /\ pc = "done"
    /\ sent[Len(sent)].day = 2 /\ sent[Len(sent)].idx = 3
    /\ all_results # <<>> /\ column_names # <<>>
    /\ Len(date_ranges) = 3

\* C5: generate_daily_ranges(start, end) has end - start + 1 elements when
\* start <= end and none otherwise; each element is (day, day); the days
\* ascend strictly, each the calendar day after the one before, from start
\* to end inclusive.
C5_DailyRanges ==
    pc = "range_done" =>
        LET s == start_date.ord
            e == end_date.ord
            R == date_ranges
        IN  /\ Len(R) = IF s <= e THEN e - s + 1 ELSE 0
            /\ \A i \in 1..Len(R) : R[i] = <<R[i][1], R[i][1]>>
            /\ \A i \in 1..(Len(R) - 1) :
                /\ R[i][1] < R[i + 1][1]
                /\ ord2ymd(R[i + 1][1]) = NextDay(ord2ymd(R[i][1]))
            /\ {R[i][1] : i \in 1..Len(R)} = s..e
            /\ s <= e => R[1][1] = s /\ R[Len(R)][1] = e

\* 2024-02-28 to 2024-03-01: three days, over the leap day
C5_Witness ==
    /\ pc = "range_done"
    /\ ord2ymd(start_date.ord) = <<2024, 2, 28>>
    /\ ord2ymd(end_date.ord) = <<2024, 3, 1>>
    /\ Len(date_ranges) = 3

\* C8: in non-chunked mode the statements are executed as written, one call
\* each, in order; a failing statement does not stop the loop, and once the
\* loop is over every statement has been executed and the status, also the
\* logged one, is "failure" iff some statement failed.
C8_PlainRunsEveryStatement ==
    Plain =>
        /\ \A i \in 1..Len(sent) : sent[i].idx = i /\ sent[i].text = queries[i]
        /\ Len(sent) <= Len(queries)
        /\ (pc = "plain_exec" /\ ~Ended) => idx = Len(sent) + 1
        /\ LoopOver =>
            /\ Len(sent) = Len(queries)
            /\ status = "failure" <=> SomeFailed
            /\ \A i \in LogOfRun : logRows[i].status = "failure" <=> SomeFailed
        /\ pc = "done" => Cardinality(LogOfRun) = 1

\* Three statements, the first failed, the later ones executed, failure logged
C8_Witness ==
    /\ Plain /\ pc = "done"
    /\ Len(sent) = 3
    /\ ~sent[1].ok /\ sent[2].ok /\ sent[3].ok
    /\ \E i \in LogOfRun : logRows[i].status = "failure"

\* C9: with a required credential missing the process exits with status 1
\* having read no script, created no output directory or CSV file, connected
\* to nothing and written nothing to the run log; when the connection fails
\* it exits with status 1 having run no statement and logged nothing.
C9_FatalErrorsExitEarly ==
    /\ (~(Required \subseteq creds) /\ pc \notin {"idle", "resolve", "creds"}) =>
        /\ pc = "exited" /\ exitCode = 1
        /\ ~scriptRead /\ ~outDir /\ files = {}
        /\ conn = "none" /\ connects = 0 /\ sent = <<>>
        /\ LogOfRun = {} /\ ~reached
    /\ conn = "failed" =>
        /\ pc = "exited" /\ exitCode = 1
        /\ sent = <<>> /\ files = {}
        /\ LogOfRun = {} /\ ~reached
    /\ logExists <=> logRows # <<>>

\* The second invocation lacks a credential and leaves the existing log alone
C9_Witness ==
    /\ run = 2 /\ pc = "exited"
    /\ "DB_PASSWORD" \notin creds
    /\ fileCase = "arg"
    /\ logExists

\* C10: a statement without a describable result writes no file and counts
\* as a success; a result set, with or without rows, is written as its header
\* followed by exactly its rows in order; the combined file of a chunked run
\* is the first header followed by all rows returned, in order, and is not
\* written when no statement returned a result set.
C10_ResultWriting ==
    /\ Plain =>
        /\ \A i \in 1..Len(sent) :
            LET mine == {f \in files : f.idx = i} IN
            IF sent[i].ok /\ sent[i].cols # <<>> /\ ~(pc = "crashed" /\ closes = 0 /\ i = Len(sent))
            THEN mine = {[name |-> "query", idx |-> i,
                          lines |-> <<sent[i].cols>> \o Strs(sent[i].rows)]}
            ELSE mine = {}
        /\ \A f \in files : f.idx \in 1..Len(sent)
        /\ pc # "crashed" => success_count = Cardinality({i \in 1..Len(sent) : sent[i].ok})
    /\ (Chunked /\ LoopOver /\ status = "success") =>
        LET withCols == {i \in 1..Len(sent) : sent[i].cols # <<>>} IN
        /\ success_count = 1
        /\ IF withCols = {} THEN files = {}
           ELSE files = {[name |-> "combined", idx |-> 0,
                          lines |-> <<sent[Min(withCols)].cols>> \o Strs(RowsOf(sent))]}
    /\ (Chunked /\ ~LoopOver) => files = {}

\* A non-chunked run that wrote a file with rows and a file with the header
\* alone, and wrote none for the statement without a result set
C10_Witness ==
    /\ Plain /\ pc = "done" /\ status = "success"
    /\ Len(sent) = 3
    /\ sent[2].cols = <<>>
    /\ \E f \in files : f.idx = 1 /\ Len(f.lines) = 6
    /\ \E f \in files : f.idx = 3 /\ Len(f.lines) = 1
    /\ Cardinality(files) = 2

\* The rows of one run of the statements as written, without any failure
RECURSIVE FullRows(_, _, _)
FullRows(qs, session, rows) ==
    IF qs = <<>> THEN <<>>
    ELSE LET r == db_execute(Head(qs), session, rows)
         IN  r.rows \o FullRows(Tail(qs), r.sess, rows)

Count(seq, x) == Cardinality({i \in 1..Len(seq) : seq[i] = x})

Markers == {"@start_date", "@end_date"}

\* C1: the rows a successful chunked run accumulated are the rows of one run
\* of the unmodified statements over the full range, each exactly as often.
C1_ChunkedEqualsFullRange ==
    (Chunked /\ LoopOver /\ status = "success") =>
        LET full == FullRows(queries, NoSess, table)
        IN  \A i \in 1..Len(table) :
                Count(all_results, table[i]) = Count(full, table[i])

\* C2: in chunked mode every statement in which extract_date_range finds a
\* marker assignment is sent with that marker's literal equal to the day of
\* the iteration and the rest of its text unchanged; the calls are in
\* statement order within a day, the days ascending, every statement once per
\* day.
C2_DailyRewrite ==
    Chunked =>
        /\ \A i \in 1..Len(sent) :
            LET c == sent[i]
                q == queries[c.idx]
            IN  /\ \A m \in Markers :
                    search_date(q, m) # <<>> =>
                        search_date(c.text, m) = ord2ymd(date_ranges[c.day][1])
                /\ Len(c.text) = Len(q)
                /\ \A j \in 1..Len(q) : c.text[j] # q[j] => q[j].k = "LIT"
                /\ i = (c.day - 1) * Len(queries) + c.idx
        /\ (LoopOver /\ ~SomeFailed) => Len(sent) = Len(date_ranges) * Len(queries)

\* C4: once an invocation has ended, the run log is the header followed by
\* one record for each invocation that reached query execution and ended, in
\* the order of the invocations, and an ended run's record holds its status.
C4_OneRecordPerInvocation ==
    Ended =>
        /\ Len(logRows) = IF ended = <<>> THEN 0 ELSE Len(ended) + 1
        /\ \A i \in 1..Len(logRows) :
            IF i = 1 THEN logRows[i] = LogHeader
            ELSE logRows[i].kind = "record" /\ logRows[i].run = ended[i - 1]
        /\ \A i \in LogOfRun : logRows[i].status = status

\* C6: extract_date_range never raises; it returns a date for a marker iff a
\* statement assigns the marker a quoted ISO date, and main enters chunked
\* mode iff it returned both.
C6_ExtractNeverRaises ==
    pc \in {"detect", "chunk_begin", "chunk_exec", "chunk_write", "plain_exec",
            "close", "log", "done", "crashed"} =>
        LET r == extract_date_range(queries)
            Found(m) == \E i \in 1..Len(queries) : search_date(queries[i], m) # <<>>
        IN  /\ ~r.raised
            /\ r.start.none <=> ~Found("@start_date")
            /\ r.end.none <=> ~Found("@end_date")
            /\ reached => (Chunked <=> (Found("@start_date") /\ Found("@end_date")))

\* C7: an invocation that connected has, when it ends, acquired the
\* connection once and released it once.
C7_ConnectionReleased ==
    (Ended /\ conn # "none" /\ conn # "failed") =>
        /\ connects = 1
        /\ closes = 1
        /\ conn = "closed"

====
